---- MODULE Spec2Model ----
(***************************************************************************)
(* A model of girc's handler registry (handler.go) and of its connection   *)
(* loops (conn.go).                                                        *)
(*                                                                         *)
(* Every goroutine is a process: a Connect call, each of the four loops it *)
(* starts, each handler goroutine of exec, each caller of Send.  A step is *)
(* what a goroutine does between two points where it can wait (a channel   *)
(* operation, a lock, a sleep, a socket read or write); a section under a  *)
(* write lock is one step.  The capacities of Client.tx and Client.rx are  *)
(* declared outside the two files and are the bounds TxCap and RxCap, the  *)
(* first large enough for the whole registration handshake.                *)
(*                                                                         *)
(* Strings are sequences of one-character strings.  A Go map is a function *)
(* whose DOMAIN is the set of keys present.  A 20-letter identifier drawn  *)
(* by Caller.cuid is one element of UidPool (a block of letters, never the *)
(* separator); math/rand draws from 52^20 strings, and the model draws an  *)
(* identifier that was not issued before.                                  *)
(***************************************************************************)
EXTENDS Bags, FiniteSets, Integers, Sequences, TLC

\* ------------------------------------------------------------- bounds ----
\* registrations made in one run of the registry
MaxRegs == 2
\* explicit Caller.Remove calls made with one token
MaxRemoves == 2
\* executions of one temporary handler
MaxInvokes == 2
\* temporary handlers added in one run
MaxTmp == 1

\* inbound messages handed to RunHandlers in one run
MaxMsgs == 2
\* lines the server sends in one run
MaxLines == 1
\* capacity of the outbound queue Client.tx
TxCap == 4
\* capacity of the inbound queue Client.rx
RxCap == 1
\* Client.Send calls made in one run
MaxSends == 2
\* steps of the clock in one run
MaxTicks == 1
\* lengths of the messages handed to Client.Send
MsgLens == {50, 800}

\* command names handed to the registration functions
Cmds == {<<"P">>, <<"p">>, <<"P", ":", "Q">>, <<>>}
\* command names handed to AddTmp: one that Remove can parse back (and that
\* AddTmp stores as written), one that holds the separator
TmpCmds == {<<"p">>, <<"P", ":", "Q">>}
\* identifiers Caller.cuid draws, in the order drawn
UidPool == <<<<"x">>, <<"y">>, <<"z">>, <<"w">>>>

\* the wildcard pseudo-command of RunHandlers' first step
ALLEVENTS == <<"*">>
\* commands of the inbound messages
EventCmds == {<<"P">>, <<"Q">>}
\* command names the handlers of the dispatch runs are registered for
ExecCmds == {<<"P">>, ALLEVENTS}
\* the goroutines that call RunHandlers: the dispatch loop and Connect
ExecCallers == {"execLoop", "connect", "execLoop2", "connect2"}
\* those of the first Connect call
ConnCallers == {"execLoop", "connect"}

VARIABLES
    external,   \* Caller.external: map[COMMAND][uid]Handler
    internal,   \* Caller.internal: map[COMMAND][uid]Handler
    regs,       \* the registrations made so far, in order, with their tokens
    removeLog,  \* per registration, the results of the explicit Remove calls
    triggers,   \* goroutines of temporary handlers (deadline, handler run)
    closes,     \* per registration, how often close(done) ran
    invoked,    \* per registration, how often the stored handler was executed
    recoverSet, \* Config.RecoverFunc != nil
    wg,         \* Caller.wg: the WaitGroup's counter
    ex,         \* per calling goroutine, where it stands in RunHandlers/exec
    tasks,      \* the handler goroutines launched by exec
    recovered,  \* the HandlerErrors handed to Config.RecoverFunc, in order
    nmsgs,      \* the messages handed to RunHandlers so far
    crashed,    \* the process died from a panic nobody recovered
    cmux,       \* Client.cmux: the Connect call that holds it, 0 when free
    conn,       \* Client.conn: the ircConn it points to, 0 when nil
    tx,         \* Client.tx: the outbound queue
    rx,         \* Client.rx: the inbound queue
    config,     \* Client.Config: AllowFlood, and whether Password is set
    calls,      \* per Connect call: its position, its channels, its loops
    conns,      \* per ircConn: its fields and its socket
    now,        \* the clock, in milliseconds
    nlines,     \* the lines the server has sent so far
    users,      \* the goroutines that call Client.Send
    nsends      \* the Client.Send calls made so far

regVars == <<external, internal, regs, removeLog, triggers, closes, invoked>>
execVars == <<recoverSet, wg, ex, tasks, recovered, nmsgs, crashed>>
connVars == <<cmux, conn, tx, rx, config, calls, conns, now, nlines, users, nsends>>
vars == <<regVars, execVars, connVars>>

\* ------------------------------------------------------------ helpers ----
EmptyMap == <<>>
HasKey(m, k) == k \in DOMAIN m
MapPut(m, k, v) == [x \in (DOMAIN m) \cup {k} |-> IF x = k THEN v ELSE m[x]]
MapDel(m, k) == [x \in (DOMAIN m) \ {k} |-> m[x]]

\* strings.ToUpper over the model's alphabet
UpperChar(ch) == IF ch = "p" THEN "P" ELSE IF ch = "q" THEN "Q" ELSE ch
ToUpper(s) == [i \in 1..Len(s) |-> UpperChar(s[i])]

\* Caller.cuid: the composite token for cmd and the drawn letters b
cuid(cmd, b) == cmd \o <<":">> \o b

\* strings.IndexByte(input, ':'): 0 stands for Go's -1
IndexColon(input) ==
    IF \E i \in 1..Len(input) : input[i] = ":"
    THEN CHOOSE i \in 1..Len(input) :
            /\ input[i] = ":"
            /\ \A j \in 1..(i - 1) : input[j] # ":"
    ELSE 0

\* Caller.cuidToID: <<cmd, uid>>
cuidToID(input) ==
    LET i == IndexColon(input) IN
    IF i = 0 THEN <<<<>>, <<>>>>
    ELSE <<SubSeq(input, 1, i - 1), SubSeq(input, i + 1, Len(input))>>

\* Caller.remove: whether the token names a registered external handler
removeOk(ext, token) ==
    LET id == cuidToID(token) IN
    /\ Len(id[1]) # 0
    /\ Len(id[2]) # 0
    /\ HasKey(ext, id[1])
    /\ HasKey(ext[id[1]], id[2])

\* Caller.remove: the external map after the call
removeMap(ext, token) ==
    LET id == cuidToID(token) IN
    IF removeOk(ext, token)
    THEN [ext EXCEPT ![id[1]] = MapDel(ext[id[1]], id[2])]
    ELSE ext

\* Caller.register: the map after storing handler h for cmd under uid
registerMap(m, cmd, uid, h) ==
    LET key == ToUpper(cmd) IN
    IF HasKey(m, key)
    THEN [m EXCEPT ![key] = MapPut(m[key], uid, h)]
    ELSE MapPut(m, key, MapPut(EmptyMap, uid, h))

\* Caller.AddTmp: the external map after storing the wrapper h
addTmpMap(m, cmd, uid, h) ==
    IF HasKey(m, cmd)
    THEN [m EXCEPT ![cmd] = MapPut(m[cmd], uid, h)]
    ELSE MapPut(m, cmd, MapPut(EmptyMap, uid, h))

\* the identifier drawn next: one not issued so far (which one is immaterial)
FreshUids == IF Len(regs) < Len(UidPool) THEN {UidPool[Len(regs) + 1]} ELSE {}

\* whether registration i is stored (under the key and uid it was stored at)
Stored(m, i) == HasKey(m, regs[i].key) /\ HasKey(m[regs[i].key], regs[i].uid)

\* ------------------------------------------------------------ registry ---
RegInit ==
    /\ external = EmptyMap
    /\ internal = EmptyMap
    /\ regs = <<>>
    /\ removeLog = <<>>
    /\ triggers = EmptyBag
    /\ closes = <<>>
    /\ invoked = <<>>

NewReg(cmd, key, uid, kind) ==
    [cmd |-> cmd, key |-> key, uid |-> uid, token |-> cuid(key, uid), kind |-> kind]

\* Caller.Add / Caller.AddHandler: sregister(false, cmd, handler)
Add(cmd) ==
    /\ Len(regs) < MaxRegs
    /\ \E uid \in FreshUids :
        /\ external' = registerMap(external, cmd, uid, Len(regs) + 1)
        /\ regs' = Append(regs, NewReg(cmd, ToUpper(cmd), uid, "ext"))
    /\ removeLog' = Append(removeLog, <<>>)
    /\ closes' = Append(closes, 0)
    /\ invoked' = Append(invoked, 0)
    /\ UNCHANGED <<internal, triggers>>
    /\ UNCHANGED <<execVars, connVars>>

\* Caller.register(true, cmd, handler), as the library's own handlers do
AddInternal(cmd) ==
    /\ Len(regs) < MaxRegs
    /\ \E uid \in FreshUids :
        /\ internal' = registerMap(internal, cmd, uid, Len(regs) + 1)
        /\ regs' = Append(regs, NewReg(cmd, ToUpper(cmd), uid, "int"))
    /\ removeLog' = Append(removeLog, <<>>)
    /\ closes' = Append(closes, 0)
    /\ invoked' = Append(invoked, 0)
    /\ UNCHANGED <<external, triggers>>
    /\ UNCHANGED <<execVars, connVars>>

\* Caller.AddTmp(cmd, deadline, handler): hasDeadline is deadline > 0
AddTmp(cmd, hasDeadline) ==
    /\ Len(regs) < MaxRegs
    /\ Cardinality({i \in 1..Len(regs) : regs[i].kind = "tmp"}) < MaxTmp
    /\ \E uid \in FreshUids :
        /\ external' = addTmpMap(external, cmd, uid, Len(regs) + 1)
        /\ regs' = Append(regs, NewReg(cmd, cmd, uid, "tmp"))
    /\ removeLog' = Append(removeLog, <<>>)
    /\ closes' = Append(closes, 0)
    /\ invoked' = Append(invoked, 0)
    /\ triggers' = IF hasDeadline
                   THEN triggers (+) SetToBag({[reg |-> Len(regs) + 1, type |-> "deadline",
                                                pc |-> "sleep", ok |-> FALSE]})
                   ELSE triggers
    /\ UNCHANGED internal
    /\ UNCHANGED <<execVars, connVars>>

\* Caller.Remove(cuid), called by the holder of registration i's token
Remove(i) ==
    /\ i \in 1..Len(regs)
    /\ Len(removeLog[i]) < MaxRemoves
    /\ removeLog' = [removeLog EXCEPT ![i] = Append(@, removeOk(external, regs[i].token))]
    /\ external' = removeMap(external, regs[i].token)
    /\ UNCHANGED <<internal, regs, triggers, closes, invoked>>
    /\ UNCHANGED <<execVars, connVars>>

\* a ClearAll that empties the internal map as well
ClearEverything ==
    /\ external' = EmptyMap
    /\ internal' = EmptyMap
    /\ UNCHANGED <<regs, removeLog, triggers, closes, invoked>>
    /\ UNCHANGED <<execVars, connVars>>

\* Caller.ClearAll(): c.external is replaced by an empty map
ClearAll ==
    /\ external' = EmptyMap
    /\ UNCHANGED <<internal, regs, removeLog, triggers, closes, invoked>>
    /\ UNCHANGED <<execVars, connVars>>

\* Caller.Clear(cmd): the entry of ToUpper(cmd), if there is one, is deleted
\* from c.external
Clear(cmd) ==
    /\ external' = IF HasKey(external, ToUpper(cmd))
                   THEN MapDel(external, ToUpper(cmd))
                   ELSE external
    /\ UNCHANGED <<internal, regs, removeLog, triggers, closes, invoked>>
    /\ UNCHANGED <<execVars, connVars>>

\* one goroutine of a temporary handler: the deadline goroutine or one run
\* of the wrapped handler
Trigger(i, type, pc, ok) == [reg |-> i, type |-> type, pc |-> pc, ok |-> ok]
\* the goroutine tr moves on to pc; a goroutine that has ended is dropped
Step(tr, pc, ok) ==
    IF pc = "end"
    THEN triggers (-) SetToBag({tr})
    ELSE (triggers (-) SetToBag({tr})) (+) SetToBag({Trigger(tr.reg, tr.type, pc, ok)})
TriggerSet == BagToSet(triggers)

\* the wrapper stored by AddTmp is executed (it was in an exec stack): it
\* starts the goroutine that runs the user's handler
TmpExecute(i) ==
    /\ i \in 1..Len(regs)
    /\ regs[i].kind = "tmp"
    /\ Stored(external, i)
    /\ invoked[i] < MaxInvokes
    /\ invoked' = [invoked EXCEPT ![i] = @ + 1]
    /\ triggers' = triggers (+) SetToBag({Trigger(i, "handler", "run", FALSE)})
    /\ UNCHANGED <<external, internal, regs, removeLog, closes>>
    /\ UNCHANGED <<execVars, connVars>>

\* the user's handler returns remove
TmpHandlerReturn(tr, remove) ==
    /\ tr \in TriggerSet
    /\ tr.pc = "run"
    /\ triggers' = Step(tr, IF remove THEN "remove" ELSE "end", FALSE)
    /\ UNCHANGED <<external, internal, regs, removeLog, closes, invoked>>
    /\ UNCHANGED <<execVars, connVars>>

\* <-time.After(deadline) of the deadline goroutine
TmpDeadline(tr) ==
    /\ tr \in TriggerSet
    /\ tr.pc = "sleep"
    /\ triggers' = Step(tr, "remove", FALSE)
    /\ UNCHANGED <<external, internal, regs, removeLog, closes, invoked>>
    /\ UNCHANGED <<execVars, connVars>>

\* a wrapper that closes done whatever c.Remove(cuid) returned
tmpClosesUnchecked(ok) == TRUE

\* whether a trigger closes done after its c.Remove(cuid) returned ok
tmpCloses(ok) == ok

\* ok := c.Remove(cuid) of a trigger goroutine
TmpRemove(tr) ==
    /\ tr \in TriggerSet
    /\ tr.pc = "remove"
    /\ LET ok == removeOk(external, regs[tr.reg].token) IN
        /\ triggers' = Step(tr, IF tmpCloses(ok) THEN "close" ELSE "end", ok)
        /\ external' = removeMap(external, regs[tr.reg].token)
    /\ UNCHANGED <<internal, regs, removeLog, closes, invoked>>
    /\ UNCHANGED <<execVars, connVars>>

\* close(done) of a trigger goroutine
TmpClose(tr) ==
    /\ tr \in TriggerSet
    /\ tr.pc = "close"
    /\ closes' = [closes EXCEPT ![tr.reg] = @ + 1]
    /\ triggers' = Step(tr, "end", tr.ok)
    /\ UNCHANGED <<external, internal, regs, removeLog, invoked>>
    /\ UNCHANGED <<execVars, connVars>>

\* ------------------------------------------------------------ dispatch ---
Idle == [pc |-> "idle", phase |-> 0, seq |-> 0, event |-> <<>>, stack |-> {}]

ExecInit ==
    /\ recoverSet \in BOOLEAN
    /\ wg = 0
    /\ ex = [c \in ExecCallers |-> Idle]
    /\ tasks = {}
    /\ recovered = <<>>
    /\ nmsgs = 0
    /\ crashed = FALSE

\* an inbound message: its command, and k standing for the rest of its content
Event(k, cmd) == [id |-> k, Command |-> cmd]

\* the command exec is called with in RunHandlers' step phase
execCommand(event, phase) == IF phase = 1 THEN ALLEVENTS ELSE event.Command

\* exec's stack: the internal handlers for command, then the external ones
\* (the handlers run concurrently: the stack's order decides nothing)
execStack(command) ==
    {[h |-> internal[command][u], cuid |-> u] :
        u \in IF HasKey(internal, command) THEN DOMAIN internal[command] ELSE {}}
    \cup
    {[h |-> external[command][u], cuid |-> u] :
        u \in IF HasKey(external, command) THEN DOMAIN external[command] ELSE {}}

\* a nil *Event
NilEvent == [id |-> 0, Command |-> <<>>]

\* the handler goroutine exec starts for one stack entry
Task(c, seq, event, e) ==
    [caller |-> c, seq |-> seq, event |-> event, h |-> e.h, cuid |-> e.cuid,
     state |-> "ready"]

\* exec(command, event) by goroutine c, up to c.wg.Wait(): the stack is built
\* under c.mu.RLock, c.wg.Add(len(stack)) runs and the goroutines are started
exec(c, event, phase, seq) ==
    LET stack == execStack(execCommand(event, phase)) IN
    /\ wg' = wg + Cardinality(stack)
    /\ tasks' = tasks \cup {Task(c, seq, event, e) : e \in stack}
    /\ ex' = [ex EXCEPT ![c] = [pc |-> "wait", phase |-> phase, seq |-> seq,
                                 event |-> event, stack |-> stack]]

\* Client.RunHandlers(event), called by goroutine c: it returns at once for
\* a nil event, and goes up to the Wait of its first exec call otherwise
RunHandlers(c, event) ==
    /\ ~crashed
    /\ ex[c].pc = "idle"
    /\ IF event = NilEvent
       THEN UNCHANGED <<wg, ex, tasks, nmsgs>>
       ELSE /\ nmsgs' = nmsgs + 1
            /\ exec(c, event, 1, 2 * nmsgs + 1)
    /\ UNCHANGED <<recoverSet, recovered, crashed>>
    /\ UNCHANGED regVars

\* a goroutine of exec reaches stack[index].Execute(client, *event)
TaskStart(t) ==
    /\ ~crashed
    /\ t \in tasks
    /\ t.state = "ready"
    /\ tasks' = (tasks \ {t}) \cup {[t EXCEPT !.state = "running"]}
    /\ UNCHANGED <<recoverSet, wg, ex, recovered, nmsgs, crashed>>
    /\ UNCHANGED <<regVars, connVars>>

\* Execute returns: the goroutine runs c.wg.Done() and ends
TaskReturn(t) ==
    /\ ~crashed
    /\ t \in tasks
    /\ t.state = "running"
    /\ tasks' = (tasks \ {t}) \cup {[t EXCEPT !.state = "returned"]}
    /\ wg' = wg - 1
    /\ UNCHANGED <<recoverSet, ex, recovered, nmsgs, crashed>>
    /\ UNCHANGED <<regVars, connVars>>

\* a HandlerError that carries another message than the one dispatched
staleHandlerError(event, id) == [Event |-> [event EXCEPT !.id = 0], ID |-> id]

\* recoverHandlerPanic: the HandlerError built for RecoverFunc
newHandlerError(event, id) == [Event |-> event, ID |-> id]

\* Execute panics.  With RecoverFunc set the deferred recoverHandlerPanic
\* recovers, calls RecoverFunc and the goroutine ends (the statements after
\* Execute, c.wg.Done() among them, are not run); without it the process dies
TaskPanic(t) ==
    /\ ~crashed
    /\ t \in tasks
    /\ t.state = "running"
    /\ IF recoverSet
       THEN /\ tasks' = (tasks \ {t}) \cup {[t EXCEPT !.state = "recovered"]}
            /\ recovered' = Append(recovered, newHandlerError(t.event, t.cuid))
            /\ UNCHANGED crashed
       ELSE /\ crashed' = TRUE
            /\ UNCHANGED <<tasks, recovered>>
    /\ UNCHANGED <<recoverSet, wg, ex, nmsgs>>
    /\ UNCHANGED <<regVars, connVars>>

\* an exec that returns without waiting for its goroutines
waitReturnsAtOnce(n) == TRUE

\* c.wg.Wait() returns when the counter is n
waitReturns(n) == n = 0

\* exec: c.wg.Wait() returns, and so does exec.  After its first step
\* RunHandlers goes on to the exec call of its second step; after the second
\* it runs decodeCTCP and, for a CTCP message, c.CTCP.call (the CTCP registry
\* is outside this model), and returns
ExecWait(c) ==
    /\ ~crashed
    /\ ex[c].pc = "wait"
    /\ waitReturns(wg)
    /\ IF ex[c].phase = 1
       THEN exec(c, ex[c].event, 2, ex[c].seq + 1)
       ELSE /\ ex' = [ex EXCEPT ![c] = Idle]
            /\ UNCHANGED <<wg, tasks>>
    /\ UNCHANGED <<recoverSet, recovered, nmsgs, crashed>>
    /\ UNCHANGED <<regVars, connVars>>

\* ---------------------------------------------------------- connection ---
\* the Connect calls, the ircConn of call s being number s
Sessions == {1, 2}
\* the four goroutines Connect starts
Loops == {"execLoop", "readLoop", "pingLoop", "sendLoop"}
\* the goroutines that call Client.Send
Users == {"u1", "u2"}

\* the goroutine names under which call s and its dispatch loop run handlers
ConnectCaller(s) == IF s = 1 THEN "connect" ELSE "connect2"
LoopCaller(s) == IF s = 1 THEN "execLoop" ELSE "execLoop2"

\* the pseudo-command of the event Connect dispatches first
INITIALIZED == <<"I">>

\* an outbound message: its command, and the length Event.Len reports
Msg(cmd, len) == [Command |-> cmd, len |-> len, by |-> "", seq |-> 0]

\* the *Event a goroutine hands to write: events are told apart by the
\* goroutine that made them and by their number among its events
sentBy(event, who, n) == [event EXCEPT !.by = who, !.seq = n]
NoMsg == Msg("", 0)

\* the zero time.Time of a fresh ircConn: long before the clock's start
ZeroTime == 0 - 1000000

\* a Connect call that was not made yet
NoCall ==
    [pc |-> "idle", ret |-> "nil", errs |-> <<>>, errsClosed |-> FALSE,
     doneClosed |-> FALSE, first |-> "nil", loops |-> [l \in Loops |-> "none"],
     rpend |-> NilEvent, spend |-> NoMsg, held |-> 0]

\* the ircConn newConn returns, and its socket: mu counts the read locks held
\* (a write lock is taken and released within one step)
NewConn ==
    [mu |-> 0, lastWrite |-> ZeroTime, writeDelay |-> 0, lastPing |-> ZeroTime,
     lastPong |-> ZeroTime, inbox |-> <<>>, broken |-> FALSE, wire |-> <<>>]

NoUser == [pc |-> "idle", msg |-> NoMsg, delay |-> 0, debt |-> 0]

ConnInit ==
    /\ cmux = 0
    /\ conn = 0
    /\ tx = <<>>
    /\ rx = <<>>
    /\ config = [AllowFlood |-> FALSE, Password |-> FALSE]
    /\ calls = [s \in Sessions |-> NoCall]
    /\ conns = [k \in Sessions |-> NewConn]
    /\ now = 0
    /\ nlines = 0
    /\ users = [u \in Users |-> NoUser]
    /\ nsends = 0

\* Connect: c.cmux.Lock()
ConnectLock(s) ==
    /\ ~crashed
    /\ calls[s].pc = "idle"
    /\ cmux = 0
    /\ cmux' = s
    /\ calls' = [calls EXCEPT ![s].pc = "dial"]
    /\ UNCHANGED <<conn, tx, rx, config, conns, now, nlines, users, nsends>>
    /\ UNCHANGED <<regVars, execVars>>

\* Connect: newConn; on an error cmux is released and Connect returns it, on
\* success the connection is stored and cmux is released
ConnectDial(s, ok) ==
    /\ ~crashed
    /\ calls[s].pc = "dial"
    /\ cmux' = 0
    /\ IF ok
       THEN /\ conn' = s
            /\ conns' = [conns EXCEPT ![s] = NewConn]
            /\ calls' = [calls EXCEPT ![s].pc = "loops"]
       ELSE /\ calls' = [calls EXCEPT ![s].pc = "returned", ![s].ret = "dial"]
            /\ UNCHANGED <<conn, conns>>
    /\ UNCHANGED <<tx, rx, config, now, nlines, users, nsends>>
    /\ UNCHANGED <<regVars, execVars>>

\* Connect: the two channels are made, the four loops are started and
\* c.RunHandlers(&Event{Command: INITIALIZED}) is entered
ConnectStart(s) ==
    /\ calls[s].pc = "loops"
    /\ RunHandlers(ConnectCaller(s), Event(0, INITIALIZED))
    /\ calls' = [calls EXCEPT ![s].pc = "handlers",
                              ![s].errs = <<>>,
                              ![s].loops = [l \in Loops |->
                                              IF l = "pingLoop" THEN "init" ELSE "top"]]
    /\ UNCHANGED <<cmux, conn, tx, rx, config, conns, now, nlines, users, nsends>>

\* the capacity of the errs channel
ErrCap == 4

\* The message Connect writes at step pc and the step after it.  With
\* RunHandlers returned, the first message is PASS when a password is
\* configured and NICK otherwise
handshake(pc, cfg) ==
    CASE pc = "handlers" /\ cfg.Password -> [msg |-> Msg("PASS", 10), seq |-> 1, next |-> "nick"]
      [] pc = "handlers" /\ ~cfg.Password -> [msg |-> Msg("NICK", 10), seq |-> 2, next |-> "user"]
      [] pc = "nick" -> [msg |-> Msg("NICK", 10), seq |-> 2, next |-> "user"]
      [] pc = "user" -> [msg |-> Msg("USER", 10), seq |-> 3, next |-> "cap"]
      [] pc = "cap" -> [msg |-> Msg("CAP", 10), seq |-> 4, next |-> "recv"]

\* Client.write: c.tx <- event, which waits while the queue is full
write(event) ==
    /\ Len(tx) < TxCap
    /\ tx' = Append(tx, event)

\* Connect: once RunHandlers has returned, c.write of PASS (with a password),
\* of NICK and of USER
ConnectWrite(s) ==
    /\ ~crashed
    /\ calls[s].pc \in {"handlers", "nick", "user"}
    /\ ex[ConnectCaller(s)].pc = "idle"
    /\ write(sentBy(handshake(calls[s].pc, config).msg, ConnectCaller(s),
                     handshake(calls[s].pc, config).seq))
    /\ calls' = [calls EXCEPT ![s].pc = handshake(calls[s].pc, config).next]
    /\ UNCHANGED <<cmux, conn, rx, config, conns, now, nlines, users, nsends>>
    /\ UNCHANGED <<regVars, execVars>>

\* Connect: c.listCAP(), which writes the capability request
ConnectListCAP(s) ==
    /\ ~crashed
    /\ calls[s].pc = "cap"
    /\ write(sentBy(handshake("cap", config).msg, ConnectCaller(s),
                     handshake("cap", config).seq))
    /\ calls' = [calls EXCEPT ![s].pc = "recv"]
    /\ UNCHANGED <<cmux, conn, rx, config, conns, now, nlines, users, nsends>>
    /\ UNCHANGED <<regVars, execVars>>

\* Connect: return <-errs receives the oldest error pushed
ConnectRecv(s) ==
    /\ ~crashed
    /\ calls[s].pc = "recv"
    /\ calls[s].errs # <<>>
    /\ calls' = [calls EXCEPT ![s].pc = "close_done",
                              ![s].ret = Head(calls[s].errs),
                              ![s].errs = Tail(calls[s].errs)]
    /\ UNCHANGED <<cmux, conn, tx, rx, config, conns, now, nlines, users, nsends>>
    /\ UNCHANGED <<regVars, execVars>>

\* Connect returns: the deferred close(done) runs first
ConnectCloseDone(s) ==
    /\ ~crashed
    /\ calls[s].pc = "close_done"
    /\ calls' = [calls EXCEPT ![s].pc = "close_errs", ![s].doneClosed = TRUE]
    /\ UNCHANGED <<cmux, conn, tx, rx, config, conns, now, nlines, users, nsends>>
    /\ UNCHANGED <<regVars, execVars>>

\* Connect returns: the deferred close(errs) runs last
ConnectCloseErrs(s) ==
    /\ ~crashed
    /\ calls[s].pc = "close_errs"
    /\ calls' = [calls EXCEPT ![s].pc = "returned", ![s].errsClosed = TRUE]
    /\ UNCHANGED <<cmux, conn, tx, rx, config, conns, now, nlines, users, nsends>>
    /\ UNCHANGED <<regVars, execVars>>

\* errs <- err by a loop of call s, which goes on as the record after says: a
\* send on the closed channel panics (no loop recovers), a send on the full
\* channel waits
pushErr(s, err, after) ==
    IF calls[s].errsClosed
    THEN /\ crashed' = TRUE
         /\ UNCHANGED calls
    ELSE /\ Len(calls[s].errs) < ErrCap
         /\ calls' = [calls EXCEPT ![s] = [after EXCEPT
                                             !.errs = Append(@, err),
                                             !.first = IF @ = "nil" THEN err ELSE @]]
         /\ UNCHANGED crashed

\* execLoop: select on a closed done returns
ExecLoopDone(s) ==
    /\ ~crashed
    /\ calls[s].loops["execLoop"] = "top"
    /\ ex[LoopCaller(s)].pc = "idle"
    /\ calls[s].doneClosed
    /\ calls' = [calls EXCEPT ![s].loops["execLoop"] = "done"]
    /\ UNCHANGED <<cmux, conn, tx, rx, config, conns, now, nlines, users, nsends>>
    /\ UNCHANGED <<regVars, execVars>>

\* execLoop: an event is popped from c.rx and handed to RunHandlers
ExecLoopPop(s) ==
    /\ calls[s].loops["execLoop"] = "top"
    /\ rx # <<>>
    /\ rx' = Tail(rx)
    /\ RunHandlers(LoopCaller(s), Head(rx))
    /\ UNCHANGED <<cmux, conn, tx, config, calls, conns, now, nlines, users, nsends>>

\* readLoop: the select; with done open the default branch enters decode
ReadSelect(s) ==
    /\ ~crashed
    /\ calls[s].loops["readLoop"] = "top"
    /\ calls' = [calls EXCEPT ![s].loops["readLoop"] =
                                  IF calls[s].doneClosed THEN "done" ELSE "decode"]
    /\ UNCHANGED <<cmux, conn, tx, rx, config, conns, now, nlines, users, nsends>>
    /\ UNCHANGED <<regVars, execVars>>

\* ircConn.decode: ReadString returns a line, or an error on the broken
\* link, and waits otherwise (the lines of this server are ones ParseEvent
\* accepts)
ReadDecode(s) ==
    /\ ~crashed
    /\ calls[s].loops["readLoop"] = "decode"
    /\ conn # 0
    /\ IF conns[conn].inbox # <<>>
       THEN /\ conns' = [conns EXCEPT ![conn].inbox = Tail(@)]
            /\ calls' = [calls EXCEPT ![s].rpend = Head(conns[conn].inbox),
                                      ![s].loops["readLoop"] = "push_rx"]
       ELSE /\ conns[conn].broken
            /\ calls' = [calls EXCEPT ![s].rpend = NilEvent,
                                      ![s].loops["readLoop"] = "push_err"]
            /\ UNCHANGED conns
    /\ UNCHANGED <<cmux, conn, tx, rx, config, now, nlines, users, nsends>>
    /\ UNCHANGED <<regVars, execVars>>

\* readLoop: errs <- err; the loop goes on to c.rx <- event with a nil event
ReadPushErr(s) ==
    /\ ~crashed
    /\ calls[s].loops["readLoop"] = "push_err"
    /\ pushErr(s, "decode", [calls[s] EXCEPT !.loops["readLoop"] = "push_rx"])
    /\ UNCHANGED <<cmux, conn, tx, rx, config, conns, now, nlines, users, nsends>>
    /\ UNCHANGED <<recoverSet, wg, ex, tasks, recovered, nmsgs>>
    /\ UNCHANGED regVars

\* readLoop: c.rx <- event, which waits while the queue is full
ReadPushRx(s) ==
    /\ ~crashed
    /\ calls[s].loops["readLoop"] = "push_rx"
    /\ Len(rx) < RxCap
    /\ rx' = Append(rx, calls[s].rpend)
    /\ calls' = [calls EXCEPT ![s].loops["readLoop"] = "top", ![s].rpend = NilEvent]
    /\ UNCHANGED <<cmux, conn, tx, config, conns, now, nlines, users, nsends>>
    /\ UNCHANGED <<regVars, execVars>>

\* sendLoop: select on a closed done returns
SendDone(s) ==
    /\ ~crashed
    /\ calls[s].loops["sendLoop"] = "top"
    /\ calls[s].doneClosed
    /\ calls' = [calls EXCEPT ![s].loops["sendLoop"] = "done"]
    /\ UNCHANGED <<cmux, conn, tx, rx, config, conns, now, nlines, users, nsends>>
    /\ UNCHANGED <<regVars, execVars>>

\* sendLoop: an event is popped from c.tx
SendPop(s) ==
    /\ ~crashed
    /\ calls[s].loops["sendLoop"] = "top"
    /\ tx # <<>>
    /\ tx' = Tail(tx)
    /\ calls' = [calls EXCEPT ![s].loops["sendLoop"] = "lock", ![s].spend = Head(tx)]
    /\ UNCHANGED <<cmux, conn, rx, config, conns, now, nlines, users, nsends>>
    /\ UNCHANGED <<regVars, execVars>>

\* sendLoop: lastWrite is set under c.conn.mu.Lock(), which waits while read
\* locks are held, and the event is written; the write fails on the broken
\* link
SendWrite(s) ==
    /\ ~crashed
    /\ calls[s].loops["sendLoop"] = "lock"
    /\ conn # 0
    /\ conns[conn].mu = 0
    /\ IF conns[conn].broken
       THEN /\ conns' = [conns EXCEPT ![conn].lastWrite = now]
            /\ calls' = [calls EXCEPT ![s].loops["sendLoop"] = "push_err"]
       ELSE /\ conns' = [conns EXCEPT ![conn].lastWrite = now,
                                      ![conn].wire = Append(@, calls[s].spend)]
            /\ calls' = [calls EXCEPT ![s].loops["sendLoop"] = "top",
                                      ![s].spend = NoMsg]
    /\ UNCHANGED <<cmux, conn, tx, rx, config, now, nlines, users, nsends>>
    /\ UNCHANGED <<regVars, execVars>>

\* sendLoop: errs <- err, and the loop returns
SendPushErr(s) ==
    /\ ~crashed
    /\ calls[s].loops["sendLoop"] = "push_err"
    /\ pushErr(s, "write", [calls[s] EXCEPT !.loops["sendLoop"] = "done"])
    /\ UNCHANGED <<cmux, conn, tx, rx, config, conns, now, nlines, users, nsends>>
    /\ UNCHANGED <<recoverSet, wg, ex, tasks, recovered, nmsgs>>
    /\ UNCHANGED regVars

\* pingLoop: lastPing and lastPong are set under c.conn.mu.Lock(), the loop
\* sleeps its 20 seconds and makes the ticker
PingInit(s) ==
    /\ ~crashed
    /\ calls[s].loops["pingLoop"] = "init"
    /\ conn # 0
    /\ conns[conn].mu = 0
    /\ conns' = [conns EXCEPT ![conn].lastPing = now, ![conn].lastPong = now]
    /\ calls' = [calls EXCEPT ![s].loops["pingLoop"] = "top"]
    /\ UNCHANGED <<cmux, conn, tx, rx, config, now, nlines, users, nsends>>
    /\ UNCHANGED <<regVars, execVars>>

\* pingLoop returns: the deferred RUnlock calls of its ticks run
pingReturn(s) ==
    conns' = [conns EXCEPT ![conn].mu = @ - calls[s].held]

\* pingLoop: select on a closed done returns
PingDone(s) ==
    /\ ~crashed
    /\ calls[s].loops["pingLoop"] = "top"
    /\ calls[s].doneClosed
    /\ pingReturn(s)
    /\ calls' = [calls EXCEPT ![s].loops["pingLoop"] = "done", ![s].held = 0]
    /\ UNCHANGED <<cmux, conn, tx, rx, config, now, nlines, users, nsends>>
    /\ UNCHANGED <<regVars, execVars>>

\* pingLoop: a tick.  c.conn.mu.RLock() is taken and its RUnlock deferred to
\* the loop's return; late says that lastPong is older than PingDelay + 60s.
\* When it is not, the loop goes on to c.conn.mu.Lock(), which is granted
\* once no read lock is held on the mutex: the loop holds one itself until it
\* returns, so from "lock" it has no further step
PingTick(s, late) ==
    /\ ~crashed
    /\ calls[s].loops["pingLoop"] = "top"
    /\ conn # 0
    /\ conns' = [conns EXCEPT ![conn].mu = @ + 1]
    /\ calls' = [calls EXCEPT ![s].held = @ + 1,
                              ![s].loops["pingLoop"] =
                                  IF late THEN "push_err" ELSE "lock"]
    /\ UNCHANGED <<cmux, conn, tx, rx, config, now, nlines, users, nsends>>
    /\ UNCHANGED <<regVars, execVars>>

\* pingLoop: errs <- ErrTimedOut, and the loop returns
PingPushErr(s) ==
    /\ ~crashed
    /\ calls[s].loops["pingLoop"] = "push_err"
    /\ pushErr(s, "timeout", [calls[s] EXCEPT !.loops["pingLoop"] = "done", !.held = 0])
    /\ IF calls[s].errsClosed THEN UNCHANGED conns ELSE pingReturn(s)
    /\ UNCHANGED <<cmux, conn, tx, rx, config, now, nlines, users, nsends>>
    /\ UNCHANGED <<recoverSet, wg, ex, tasks, recovered, nmsgs>>
    /\ UNCHANGED regVars

\* the server sends a line
ServerLine(k) ==
    /\ ~crashed
    /\ conn = k
    /\ ~conns[k].broken
    /\ nlines < MaxLines
    /\ nlines' = nlines + 1
    /\ conns' = [conns EXCEPT ![k].inbox = Append(@, Event(nlines + 1, <<"P">>))]
    /\ UNCHANGED <<cmux, conn, tx, rx, config, calls, now, users, nsends>>
    /\ UNCHANGED <<regVars, execVars>>

\* the link breaks, or the socket is closed: reads (after the lines that
\* arrived) and writes fail from here on
LinkBreak(k) ==
    /\ ~crashed
    /\ conn = k
    /\ ~conns[k].broken
    /\ conns' = [conns EXCEPT ![k].broken = TRUE]
    /\ UNCHANGED <<cmux, conn, tx, rx, config, calls, now, nlines, users, nsends>>
    /\ UNCHANGED <<regVars, execVars>>

\* time.Second, in milliseconds
Second == 1000

\* ircConn.rate: the cost _time of a message of chars characters
rateCost(chars) == Second + ((chars * Second) \div 100)

\* ircConn.rate: c.writeDelay after the call, elapsed being
\* time.Now().Sub(c.lastWrite)
rateDebt(debt, chars, elapsed) ==
    IF debt + (rateCost(chars) - elapsed) < 0
    THEN 0
    ELSE debt + (rateCost(chars) - elapsed)

\* ircConn.rate: the wait it returns for the debt it reads
rateWait(debt, chars) == IF debt > 8 * Second THEN rateCost(chars) ELSE 0

\* a Send that consults the rate limiter whatever the configuration says
sendRateLimitedAlways(cfg) == TRUE

\* Client.Send: whether the call goes through the rate limiter
sendRateLimited(cfg) == ~cfg.AllowFlood

\* Client.Send(event) is called by goroutine u with an event of chars
\* characters
Send(u, chars) ==
    /\ ~crashed
    /\ users[u].pc = "idle"
    /\ conn # 0
    /\ nsends < MaxSends
    /\ nsends' = nsends + 1
    /\ users' = [users EXCEPT ![u] =
                    [pc |-> IF sendRateLimited(config) THEN "rate" ELSE "write",
                     msg |-> sentBy(Msg("PRIVMSG", chars), u, nsends + 1),
                     delay |-> 0, debt |-> 0]]
    /\ UNCHANGED <<cmux, conn, tx, rx, config, calls, conns, now, nlines>>
    /\ UNCHANGED <<regVars, execVars>>

\* ircConn.rate: the debt is updated under c.mu.Lock(), which waits while
\* read locks are held
RateUpdate(u) ==
    /\ ~crashed
    /\ users[u].pc = "rate"
    /\ conns[conn].mu = 0
    /\ conns' = [conns EXCEPT ![conn].writeDelay =
                    rateDebt(@, users[u].msg.len, now - conns[conn].lastWrite)]
    /\ users' = [users EXCEPT ![u].pc = "rate_check",
                              ![u].debt = conns'[conn].writeDelay]
    /\ UNCHANGED <<cmux, conn, tx, rx, config, calls, now, nlines, nsends>>
    /\ UNCHANGED <<regVars, execVars>>

\* ircConn.rate: the debt is read under c.mu.RLock() and the wait returned;
\* Send starts time.After with it
RateCheck(u) ==
    /\ ~crashed
    /\ users[u].pc = "rate_check"
    /\ users' = [users EXCEPT ![u].pc = "sleep",
                              ![u].delay = now + rateWait(conns[conn].writeDelay,
                                                          users[u].msg.len)]
    /\ UNCHANGED <<cmux, conn, tx, rx, config, calls, conns, now, nlines, nsends>>
    /\ UNCHANGED <<regVars, execVars>>

\* a timer that fires before its time
timerFiredAtOnce(t, deadline) == TRUE

\* time.After: whether the timer set for deadline has fired at time t
timerFired(t, deadline) == t >= deadline

\* Client.Send: the timer of time.After fires
SendSleep(u) ==
    /\ ~crashed
    /\ users[u].pc = "sleep"
    /\ timerFired(now, users[u].delay)
    /\ users' = [users EXCEPT ![u].pc = "write", ![u].delay = 0]
    /\ UNCHANGED <<cmux, conn, tx, rx, config, calls, conns, now, nlines, nsends>>
    /\ UNCHANGED <<regVars, execVars>>

\* Client.Send: c.write(event), and Send returns
SendEnqueue(u) ==
    /\ ~crashed
    /\ users[u].pc = "write"
    /\ write(users[u].msg)
    /\ users' = [users EXCEPT ![u] = NoUser]
    /\ UNCHANGED <<cmux, conn, rx, config, calls, conns, now, nlines, nsends>>
    /\ UNCHANGED <<regVars, execVars>>

\* the clock's step
TickMs == 9 * Second

\* time passes
Tick ==
    /\ ~crashed
    /\ now < MaxTicks * TickMs
    /\ now' = now + TickMs
    /\ UNCHANGED <<cmux, conn, tx, rx, config, calls, conns, nlines, users, nsends>>
    /\ UNCHANGED <<regVars, execVars>>


\* ---------------------------------------------------------- specifications
RegNext ==
    \/ \E cmd \in Cmds : Add(cmd)
    \/ \E cmd \in Cmds : AddInternal(cmd)
    \/ \E i \in 1..MaxRegs : Remove(i)

\* the registry under registrations and explicit removals
InitReg == RegInit /\ ExecInit /\ ConnInit /\ recoverSet

SpecReg == InitReg /\ [][RegNext]_vars

TmpNext ==
    \/ \E cmd \in TmpCmds, d \in BOOLEAN : AddTmp(cmd, d)
    \/ \E i \in 1..MaxTmp : Remove(i)
    \/ \E i \in 1..MaxTmp : TmpExecute(i)
    \/ \E tr \in TriggerSet, r \in BOOLEAN : TmpHandlerReturn(tr, r)
    \/ \E tr \in TriggerSet : TmpDeadline(tr)
    \/ \E tr \in TriggerSet : TmpRemove(tr)
    \/ \E tr \in TriggerSet : TmpClose(tr)

\* temporary handlers and their three removal triggers
SpecTmp == InitReg /\ [][TmpNext]_vars

ExecNext ==
    \/ \E cmd \in ExecCmds : Add(cmd)
    \/ \E cmd \in ExecCmds : AddInternal(cmd)
    \/ \E cmd \in EventCmds :
        /\ nmsgs < MaxMsgs
        /\ RunHandlers("execLoop", Event(nmsgs + 1, cmd))
        /\ UNCHANGED connVars
    \/ ExecWait("execLoop")
    \/ \E t \in tasks : TaskStart(t)
    \/ \E t \in tasks : TaskReturn(t)
    \/ \E t \in tasks : TaskPanic(t)

\* messages dispatched one after another through RunHandlers, while
\* handlers are being registered
InitExec == RegInit /\ ExecInit /\ ConnInit

SpecExec == InitExec /\ [][ExecNext]_vars

\* the Go scheduler runs every goroutine that can run, and a handler body
\* ends (by returning or by panicking)
ExecFairness ==
    /\ WF_vars(ExecWait("execLoop"))
    /\ WF_vars(\E t \in tasks : TaskStart(t))
    /\ WF_vars(\E t \in tasks : TaskReturn(t) \/ TaskPanic(t))

FairSpecExec == SpecExec /\ ExecFairness

ClearNext ==
    \/ \E cmd \in ExecCmds : Add(cmd)
    \/ \E cmd \in ExecCmds : AddInternal(cmd)
    \/ \E i \in 1..MaxRegs : Remove(i)
    \/ \E cmd \in Cmds : Clear(cmd)
    \/ ClearAll
    \/ \E cmd \in EventCmds :
        /\ nmsgs < MaxMsgs
        /\ RunHandlers("execLoop", Event(nmsgs + 1, cmd))
        /\ UNCHANGED connVars
    \/ ExecWait("execLoop")
    \/ \E t \in tasks : TaskStart(t)
    \/ \E t \in tasks : TaskReturn(t)

\* messages dispatched while handlers are registered, removed and cleared
SpecClear == InitReg /\ [][ClearNext]_vars

\* the steps of the goroutine that runs Connect call s
Connect(s) ==
    \/ ConnectLock(s)
    \/ \E ok \in BOOLEAN : ConnectDial(s, ok)
    \/ ConnectStart(s)
    \/ ExecWait(ConnectCaller(s))
    \/ ConnectWrite(s)
    \/ ConnectListCAP(s)
    \/ ConnectRecv(s)
    \/ ConnectCloseDone(s)
    \/ ConnectCloseErrs(s)

\* the steps of the four loops of call s
execLoop(s) ==
    \/ ExecLoopDone(s)
    \/ ExecLoopPop(s)
    \/ ExecWait(LoopCaller(s))

readLoop(s) ==
    \/ ReadSelect(s)
    \/ ReadDecode(s)
    \/ ReadPushErr(s)
    \/ ReadPushRx(s)

sendLoop(s) ==
    \/ SendDone(s)
    \/ SendPop(s)
    \/ SendWrite(s)
    \/ SendPushErr(s)

pingLoop(s) ==
    \/ PingInit(s)
    \/ PingDone(s)
    \/ \E late \in BOOLEAN : PingTick(s, late)
    \/ PingPushErr(s)

\* the goroutines of the handlers exec started
handlers ==
    \/ \E t \in tasks : TaskStart(t)
    \/ \E t \in tasks : TaskReturn(t)
    \/ \E t \in tasks : TaskPanic(t)

\* one Connect call, its loops, the handlers, the server and the link
ConnNext ==
    \/ Connect(1)
    \/ execLoop(1)
    \/ readLoop(1)
    \/ sendLoop(1)
    \/ pingLoop(1)
    \/ handlers
    \/ ServerLine(1)
    \/ LinkBreak(1)

\* a client before its first Connect call, configured without a password,
\* with one handler registered for every event
InitConn ==
    /\ external = registerMap(EmptyMap, ALLEVENTS, UidPool[1], 1)
    /\ internal = EmptyMap
    /\ regs = <<NewReg(ALLEVENTS, ToUpper(ALLEVENTS), UidPool[1], "ext")>>
    /\ removeLog = <<<<>>>>
    /\ triggers = EmptyBag
    /\ closes = <<0>>
    /\ invoked = <<0>>
    /\ ExecInit
    /\ ConnInit

SpecConn == InitConn /\ [][ConnNext]_vars

\* the Go scheduler runs every goroutine that can run, a handler body ends,
\* the sleep ends and the ticker ticks; the server and the link owe nothing
ConnFairness ==
    /\ WF_vars(Connect(1))
    /\ WF_vars(execLoop(1))
    /\ WF_vars(readLoop(1))
    /\ WF_vars(sendLoop(1))
    /\ WF_vars(pingLoop(1))
    /\ WF_vars(handlers)

FairSpecConn == SpecConn /\ ConnFairness

\* two Connect calls made concurrently on one client, over links that stay
\* up and a server that stays silent, before the first keepalive tick
Conn2Next ==
    \/ \E s \in Sessions : ConnectLock(s)
    \/ \E s \in Sessions, ok \in BOOLEAN : ConnectDial(s, ok)
    \/ \E s \in Sessions : ConnectStart(s)
    \/ \E s \in Sessions : ExecWait(ConnectCaller(s))
    \/ \E s \in Sessions : ConnectWrite(s)
    \/ \E s \in Sessions : ConnectListCAP(s)
    \/ \E s \in Sessions : ReadSelect(s)
    \/ \E s \in Sessions : SendPop(s)
    \/ \E s \in Sessions : SendWrite(s)
    \/ \E s \in Sessions : PingInit(s)

InitConn2 == RegInit /\ ExecInit /\ ConnInit /\ recoverSet

SpecConn2 == InitConn2 /\ [][Conn2Next]_vars

\* a session that runs: Connect waits for an error with its handshake still
\* queued, and goroutines call Client.Send
SendNext ==
    \/ \E u \in Users, chars \in MsgLens : Send(u, chars)
    \/ \E u \in Users : RateUpdate(u)
    \/ \E u \in Users : RateCheck(u)
    \/ \E u \in Users : SendSleep(u)
    \/ \E u \in Users : SendEnqueue(u)
    \/ SendPop(1)
    \/ SendWrite(1)
    \/ SendPushErr(1)
    \/ LinkBreak(1)
    \/ Tick

InitSend ==
    /\ RegInit
    /\ ExecInit
    /\ recoverSet
    /\ cmux = 0
    /\ conn = 1
    /\ tx = <<sentBy(Msg("NICK", 10), "connect", 2),
               sentBy(Msg("USER", 10), "connect", 3),
               sentBy(Msg("CAP", 10), "connect", 4)>>
    /\ rx = <<>>
    /\ config \in [AllowFlood : BOOLEAN, Password : {FALSE}]
    /\ calls = [s \in Sessions |->
                  IF s = 1
                  THEN [NoCall EXCEPT !.pc = "recv",
                                      !.loops = [l \in Loops |->
                                                   IF l = "readLoop" THEN "decode" ELSE "top"]]
                  ELSE NoCall]
    /\ conns = [k \in Sessions |->
                  IF k = 1 THEN [NewConn EXCEPT !.lastPing = 0, !.lastPong = 0] ELSE NewConn]
    /\ now = 0
    /\ nlines = 0
    /\ users = [u \in Users |-> NoUser]
    /\ nsends = 0

SpecSend == InitSend /\ [][SendNext]_vars

\* ------------------------------------------------------- claims C1..C3 ----
\* goroutines of temporary handler i that stand at pc
CountAt(i, pc) ==
    BagCardinality([tr \in {x \in TriggerSet : x.reg = i /\ x.pc = pc} |-> triggers[tr]])

\* the explicit Remove calls with registration i's token that returned true
TrueRemoves(i) == {j \in 1..Len(removeLog[i]) : removeLog[i][j]}

\* C1: for every command name, the first Remove with the token of a handler
\* registered by Add/AddHandler returns true and deletes exactly that
\* handler (the others stay), and every later Remove returns false.
C1_RemoveRoundTrip ==
    \A i \in 1..Len(regs) :
        regs[i].kind = "ext" =>
            /\ removeLog[i] = <<>> => Stored(external, i)
            /\ removeLog[i] # <<>> =>
                    /\ removeLog[i][1]
                    /\ \A j \in 2..Len(removeLog[i]) : ~removeLog[i][j]
                    /\ ~Stored(external, i)

\* C2: done of a temporary handler is closed at most once: at most one of
\* its triggers (handler runs returning true, the deadline, an explicit
\* Remove) has Remove return true, only a trigger goroutine whose Remove
\* returned true goes on to close done, and the others do nothing.
C2_DoneClosedAtMostOnce ==
    \A i \in 1..Len(regs) :
        regs[i].kind = "tmp" =>
            /\ closes[i] <= 1
            /\ Cardinality(TrueRemoves(i)) + CountAt(i, "close") + closes[i] <= 1
            /\ \A tr \in TriggerSet : tr.reg = i /\ tr.pc = "close" => tr.ok

\* C2's case: done was closed by one trigger, two runs of the handler were
\* started, an explicit Remove found the handler gone, and every trigger
\* goroutine has ended.
C2_Witness ==
    \E i \in 1..Len(regs) :
        /\ regs[i].kind = "tmp"
        /\ closes[i] = 1
        /\ invoked[i] >= 2
        /\ removeLog[i] = <<FALSE>>
        /\ triggers = EmptyBag

\* C3: whichever event removed a temporary handler from the registry, done
\* is closed as a consequence: once the handler is gone, done is closed or
\* the goroutine that removed it is about to close it.
C3_RemovedThenClosed ==
    \A i \in 1..Len(regs) :
        (regs[i].kind = "tmp" /\ ~Stored(external, i)) =>
            (closes[i] = 1 \/ CountAt(i, "close") >= 1)

\* ------------------------------------------------------- claims C4..C6 ----
Finished(t) == t.state \in {"returned", "recovered"}

\* C4: no handler of a later exec stack (the next message's, or the same
\* message's next step) has started while a handler of an earlier stack has
\* not returned from Execute.
C4_StacksInOrder ==
    \A t1 \in tasks, t2 \in tasks :
        (t1.seq < t2.seq /\ t2.state # "ready") => t1.state = "returned"

\* C4's case: a handler of the second message runs, after a handler of the
\* first message returned.
C4_Witness ==
    \E t1 \in tasks, t2 \in tasks :
        /\ t1.event.id = 1 /\ t1.state = "returned"
        /\ t2.event.id = 2 /\ t2.state = "running"

\* the HandlerErrors handed to RecoverFunc for the panic of goroutine t
ErrorsOf(t) ==
    {i \in 1..Len(recovered) : recovered[i].Event = t.event /\ recovered[i].ID = t.cuid}

C5_OneRecordPerPanic ==
    recoverSet =>
        /\ \A t \in tasks :
              Cardinality(ErrorsOf(t)) = IF t.state = "recovered" THEN 1 ELSE 0
        /\ Len(recovered) = Cardinality({t \in tasks : t.state = "recovered"})

\* C5: with RecoverFunc set, RecoverFunc is called exactly once for each
\* handler panic, with a HandlerError whose Event is the message that was
\* being dispatched, and once a handler has panicked every handler
\* goroutine that was launched still runs to its end.
C5_PanicIsolated ==
    /\ []C5_OneRecordPerPanic
    /\ (recoverSet /\ \E t \in tasks : t.state = "recovered")
            ~> (\A t \in tasks : Finished(t))

\* C5's case: one handler of a stack panicked and was recovered, a sibling
\* of the same stack returned.
C5_Witness ==
    /\ recoverSet
    /\ Len(recovered) = 1
    /\ \E t1 \in tasks, t2 \in tasks :
        /\ t1.seq = t2.seq
        /\ t1.state = "recovered"
        /\ t2.state = "returned"
        /\ recovered[1].Event = t1.event

\* C6: with RecoverFunc set, an exec call whose handlers have all ended, by
\* returning or by a recovered panic, returns (its Wait is not left
\* blocked), so that RunHandlers goes on to its next step.
C6_ExecReturnsAfterPanic ==
    recoverSet =>
        \A c \in ExecCallers :
            (ex[c].pc = "wait" /\ \A t \in tasks : Finished(t)) => wg = 0

\* ------------------------------------------------------ claims C7..C10 ----
\* Connect call s has received from its error channel
Received(s) ==
    calls[s].pc \in {"close_done", "close_errs", "returned"} /\ calls[s].ret # "dial"

\* C7: after a successful dial, once a loop has pushed an error onto the
\* error channel Connect eventually returns (unless the process has died of
\* an unrecovered panic), and what it returns is the first error pushed.
C7_ConnectReturnsFirstError ==
    /\ [](Received(1) => calls[1].ret = calls[1].first)
    /\ (calls[1].first # "nil") ~> (calls[1].pc = "returned" \/ crashed)

\* C8: once Connect has returned an error it received from the error
\* channel, its four loops have stopped or stop by themselves, whatever the
\* server and the link do from then on.
C8_LoopsStopAfterReturn ==
    (calls[1].pc = "returned" /\ calls[1].ret # "dial")
        ~> (crashed \/ \A l \in Loops : calls[1].loops[l] = "done")

\* Connect call s has passed the dial, has started its loops and has not
\* received from its error channel
InFlight(s) == calls[s].pc \in {"handlers", "nick", "user", "cap", "recv"}

\* C9: of two Connect calls made concurrently on one client, at most one is
\* past the dial with its loops running at any time.
C9_SingleFlight == Cardinality({s \in Sessions : InFlight(s)}) <= 1

\* C10 as stated: with AllowFlood set no caller of Send is ever suspended,
\* whatever the state of the outbound queue; a caller that stands at
\* c.tx <- event while the queue is full is suspended.
C10_SendNeverSuspends ==
    config.AllowFlood =>
        \A u \in Users : ~(users[u].pc = "write" /\ Len(tx) >= TxCap)

\* C10, amended: with AllowFlood set a caller of Send never goes through the
\* rate limiter and never sleeps (the write-delay debt stays untouched); it
\* is held up at c.tx <- event only while the outbound queue is full.
C10_FloodSendSkipsLimiter ==
    config.AllowFlood =>
        /\ \A u \in Users : users[u].pc \in {"idle", "write"}
        /\ conns[conn].writeDelay = 0
        /\ \A u \in Users :
              (users[u].pc = "write" /\ Len(tx) < TxCap) => ENABLED SendEnqueue(u)

\* C10's case: with AllowFlood set, Send calls have returned with their
\* messages in the outbound queue, one of them longer than the rate limiter
\* lets through without a wait.
C10_Witness ==
    /\ config.AllowFlood
    /\ nsends = MaxSends
    /\ \A u \in Users : users[u].pc = "idle"
    /\ \E i \in 1..Len(tx) : tx[i].Command = "PRIVMSG" /\ tx[i].len = 800

\* ------------------------------------------------------ claims C11..C15 ---
\* C11 as stated: a call of rate for a message of n characters returns the
\* cost 1s + n*1s/100 when the debt the call itself stored is above 8s, and
\* zero otherwise.  The call reads the debt back in a second lock section,
\* after a concurrent call may have stored its own.
C11_RateReturnsByNewDebt ==
    [][\A u \in Users :
          (users[u].pc = "rate_check" /\ users'[u].pc = "sleep") =>
              users'[u].delay - now =
                  IF users[u].debt > 8 * Second
                  THEN Second + users[u].msg.len * 10
                  ELSE 0]_vars

\* C12 as stated: two messages of one sender are written to the transport in
\* the order the sender enqueued them, and none is written twice.
C12_WrittenInEnqueueOrder ==
    \A k \in Sessions : \A i, j \in 1..Len(conns[k].wire) :
        (i < j /\ conns[k].wire[i].by = conns[k].wire[j].by) =>
            conns[k].wire[i].seq < conns[k].wire[j].seq

\* C13: Remove, ClearAll and Clear leave the internal namespace as it was,
\* whatever their argument; and every exec started for a command has every
\* internal handler registered for that command in its stack, a Remove with
\* the handler's own token having been called or not.
C13_InternalKept ==
    [][/\ (ClearAll \/ (\E cmd \in Cmds : Clear(cmd)) \/ (\E i \in 1..MaxRegs : Remove(i)))
            => internal' = internal
       /\ \A c \in ExecCallers :
            (ex'[c] # ex[c] /\ ex'[c].pc = "wait") =>
                \A i \in 1..Len(regs) :
                    (regs[i].kind = "int"
                        /\ regs[i].key = execCommand(ex'[c].event, ex'[c].phase)) =>
                        \E e \in ex'[c].stack : e.h = i /\ e.cuid = regs[i].uid]_vars

\* C13's case: Remove was called with the token of an internal handler and
\* returned false, the external handlers are cleared, and the internal
\* handler runs for a dispatched message.
C13_Witness ==
    \E i \in 1..Len(regs) :
        /\ regs[i].kind = "int"
        /\ removeLog[i] # <<>>
        /\ ~removeLog[i][1]
        /\ external = EmptyMap
        /\ \E j \in 1..Len(regs) : regs[j].kind = "ext"
        /\ \E t \in tasks : t.h = i /\ t.state = "running"

\* C14 as stated: for every command and every uid, cuidToID gives back the
\* command and the uid that cuid built the token from.
C14_TokenRoundTrip ==
    \A i \in 1..Len(regs) :
        /\ regs[i].token = cuid(regs[i].key, regs[i].uid)
        /\ cuidToID(regs[i].token) = <<regs[i].key, regs[i].uid>>

\* C15 as stated: after a decode failure the read loop pushes the error and
\* exits; no nil event is pushed onto the inbound queue, nor is the loop
\* about to push one.
C15_ReadLoopExitsOnError ==
    /\ \A i \in 1..Len(rx) : rx[i] # NilEvent
    /\ \A s \in Sessions :
          calls[s].loops["readLoop"] = "push_rx" => calls[s].rpend # NilEvent

\* ------------------------------------------------------ claims C16..C20 ---
\* a loop of call s stands at errs <- err
PushingErr(s) == \E l \in Loops : calls[s].loops[l] = "push_err"

\* C16 as stated: a loop that pushes an error never finds the error channel
\* full, whether Connect receives from it yet or not.
C16_ErrPushNeverBlocks ==
    \A s \in Sessions :
        (PushingErr(s) /\ ~calls[s].errsClosed) => Len(calls[s].errs) < ErrCap

\* C17 as stated: a tick that finds the last PONG recent enough completes:
\* the write lock under which lastPing is recorded can be granted, that is,
\* no read lock is held on the connection's mutex when the loop asks for it.
C17_TickCompletes ==
    \A s \in Sessions :
        calls[s].loops["pingLoop"] = "lock" =>
            (calls[s].held = 0 /\ conns[conn].mu = 0)

\* C18 as stated: with AllowFlood unset, every message the send loop pops and
\* writes has gone through the rate limiter.  rate is called by Send alone,
\* before it enqueues, so the messages that went through it are those of the
\* goroutines calling Send.
C18_EveryWriteRateLimited ==
    ~config.AllowFlood =>
        \A k \in Sessions : \A i \in 1..Len(conns[k].wire) :
            conns[k].wire[i].by \in Users

\* C18, amended: with AllowFlood unset, a message passed to Send is enqueued
\* only after rate has charged the debt for it, the wait was read from the
\* debt, and a timer of that wait has fired; the send loop consults no rate
\* limiter, and what Connect enqueues through write goes out without one.
C18_SendWaitsBeforeEnqueue ==
    [][~config.AllowFlood =>
        \A u \in Users :
            /\ (users[u].pc # "write" /\ users'[u].pc = "write") =>
                    (users[u].pc = "sleep" /\ now >= users[u].delay)
            /\ (users[u].pc # "sleep" /\ users'[u].pc = "sleep") =>
                    /\ users[u].pc = "rate_check"
                    /\ users'[u].delay = now + rateWait(conns[conn].writeDelay,
                                                        users[u].msg.len)
            /\ (users[u].pc # "rate_check" /\ users'[u].pc = "rate_check") =>
                    /\ users[u].pc = "rate"
                    /\ conns'[conn].writeDelay =
                           rateDebt(conns[conn].writeDelay, users[u].msg.len,
                                    now - conns[conn].lastWrite)]_vars

\* C18's case: with AllowFlood unset a handshake message is on the wire, no
\* rate call having been made for it, and a Send whose call has stored a debt
\* above 8s has slept and stands at the enqueue.
C18_Witness ==
    /\ ~config.AllowFlood
    /\ \E i \in 1..Len(conns[conn].wire) : conns[conn].wire[i].by = "connect"
    /\ \E u \in Users :
          /\ users[u].pc = "write"
          /\ users[u].debt > 8 * Second
          /\ now >= TickMs

\* C19 as stated: every command key of the internal and of the external
\* map is in upper case, whichever operation stored it.
C19_KeysUpperCase ==
    /\ \A key \in DOMAIN external : key = ToUpper(key)
    /\ \A key \in DOMAIN internal : key = ToUpper(key)

\* the handler goroutines of the exec call goroutine c waits in
OwnTasks(c) == {t \in tasks : t.caller = c /\ t.seq = ex[c].seq}

\* C20 as stated: an exec call waits for the handler goroutines of its own
\* stack only: once they have all returned (no handler having panicked),
\* its Wait returns, whatever other exec calls are under way on the Caller.
C20_ExecWaitsForOwnHandlers ==
    \A c \in ExecCallers :
        (/\ ~crashed
         /\ recovered = <<>>
         /\ ex[c].pc = "wait"
         /\ \A t \in OwnTasks(c) : t.state = "returned") => ENABLED ExecWait(c)

\* ------------------------------------------------------ claims C21..C22 ---
\* a message is in the outbound queue or in the hands of the send loop
Pending(s) == tx # <<>> \/ calls[s].spend # NoMsg

\* the session of call s is over, or a write can fail
SessionOver(s) ==
    \/ crashed
    \/ calls[s].doneClosed
    \/ (conn # 0 /\ conns[conn].broken)

\* C21 as stated: while the session runs and no write fails, every message
\* enqueued on the outbound queue is eventually written: the queue and the
\* send loop's hands get empty, no lock on the connection being held for
\* good in the way of the send loop.
C21_EnqueuedEventuallyWritten ==
    Pending(1) ~> (~Pending(1) \/ SessionOver(1))

\* C22 as stated: no read, send or keepalive loop executes errs <- err once
\* Connect has closed the error channel.
C22_NoPushAfterClose ==
    [][\A s \in Sessions :
          calls[s].errsClosed =>
              ~(ReadPushErr(s) \/ SendPushErr(s) \/ PingPushErr(s))]_vars

====
